---------------------------- MODULE Spec2Model ----------------------------
(***************************************************************************)
(* A model of the translation pipeline of scripts/translate.js: the        *)
(* placeholder codec, translateText and its retries, the batch pass, the   *)
(* item pass, the progress files, the tabular output and the shutdown      *)
(* handler.                                                                *)
(*                                                                         *)
(* Texts are sequences of UTF-16 code units, as JavaScript strings are.    *)
(* Each code unit is a TLA+ string:                                        *)
(*   "a" "b"   lower-case letters (any ordinary code unit behaves so)      *)
(*   "A" "B"   their upper-case forms                                      *)
(*   "{" "}"   the braces of a placeholder                                 *)
(*   "P" "Q"   the two code units of the marker U+1F0DF (D83C, DCDF)       *)
(*   "h" "v"   the two code units of the separator U+2764 U+FE0F           *)
(*   "LF"      the line break, "SP" the space                              *)
(***************************************************************************)
EXTENDS Integers, Sequences, FiniteSets, TLC

(***************************************************************************)
(* Bounds of the model.                                                    *)
(***************************************************************************)
MaxTextLen == 4

NumRows == 2

MaxRuns == 2

(***************************************************************************)
(* Program constants.                                                      *)
(***************************************************************************)
MAX_RETRIES == 10

\* the --batch-size and --batch-max-text-length the model runs with
BatchSize == 2

MaxBatchTextLength == 2

PLACEHOLDER_PREFIX == <<"P", "Q">>

PLACEHOLDER_SUFFIX == <<"P", "Q">>

CHAR_SEPARATOR == <<"h", "v">>

(***************************************************************************)
(* Generic helpers on texts.                                               *)
(***************************************************************************)
RECURSIVE Concat(_)
Concat(ss) == IF ss = <<>> THEN <<>> ELSE Head(ss) \o Concat(Tail(ss))

\* s.startsWith(pat, i) with 1-based i
StartsAt(s, pat, i) ==
    /\ i + Len(pat) - 1 <= Len(s)
    /\ \A k \in 1..Len(pat) : s[i + k - 1] = pat[k]

\* s.includes(pat)
Includes(s, pat) == \E i \in 1..(Len(s) + 1) : StartsAt(s, pat, i)

\* the code units of a text
Units(s) == {s[i] : i \in 1..Len(s)}

\* all texts of at most n code units over the alphabet
TextsUpTo(alphabet, n) == UNION {[1..k -> alphabet] : k \in 0..n}

(***************************************************************************)
(* The placeholder codec.                                                  *)
(***************************************************************************)
\* param.split("").join(CHAR_SEPARATOR)
RECURSIVE JoinChars(_)
JoinChars(param) ==
    IF Len(param) <= 1 THEN param
    ELSE <<Head(param)>> \o CHAR_SEPARATOR \o JoinChars(Tail(param))

\* the marker maskPlaceholders puts in place of {param}
Marker(param) == PLACEHOLDER_PREFIX \o JoinChars(param) \o PLACEHOLDER_SUFFIX

\* the position of the first "}" after position i, or 0
FirstClose(text, i) ==
    LET js == {j \in (i + 1)..Len(text) : text[j] = "}"}
    IN  IF js = {} THEN 0 ELSE CHOOSE j \in js : \A k \in js : j <= k

\* text.replace(/\{([^}]+)\}/g, ...) scanning from position i
RECURSIVE MaskFrom(_, _)
MaskFrom(text, i) ==
    IF i > Len(text) THEN [maskedText |-> <<>>, placeholders |-> <<>>]
    ELSE LET j == FirstClose(text, i)
         IN  IF text[i] = "{" /\ j >= i + 2
             THEN LET param == SubSeq(text, i + 1, j - 1)
                      rest  == MaskFrom(text, j + 1)
                  IN  [maskedText   |-> Marker(param) \o rest.maskedText,
                       placeholders |-> <<param>> \o rest.placeholders]
             ELSE LET rest == MaskFrom(text, i + 1)
                  IN  [maskedText   |-> <<text[i]>> \o rest.maskedText,
                       placeholders |-> rest.placeholders]

maskPlaceholders(text) == MaskFrom(text, 1)

\* a decoder that leaves the separators in the name
KeepSeparators(s) == s

\* param.split(CHAR_SEPARATOR).join("")
RECURSIVE RemoveSeparators(_)
RemoveSeparators(s) ==
    IF s = <<>> THEN <<>>
    ELSE IF StartsAt(s, CHAR_SEPARATOR, 1)
         THEN RemoveSeparators(SubSeq(s, Len(CHAR_SEPARATOR) + 1, Len(s)))
         ELSE <<Head(s)>> \o RemoveSeparators(Tail(s))

\* the code units the character class [^<prefix><suffix>] excludes: the
\* expression has no "u" flag, so the class is made of code units
ClassExcluded == Units(PLACEHOLDER_PREFIX) \cup Units(PLACEHOLDER_SUFFIX)

\* the end of the greedy run [^..]+ that starts at position i: the first
\* position at or after i that holds an excluded code unit, or Len + 1
RunEnd(text, i) ==
    LET ks == {k \in i..Len(text) : text[k] \in ClassExcluded}
    IN  IF ks = {} THEN Len(text) + 1 ELSE CHOOSE k \in ks : \A m \in ks : k <= m

\* text.replace(new RegExp(prefix + "([^...]+)" + suffix, "g"), ...) from i
RECURSIVE UnmaskFrom(_, _)
UnmaskFrom(text, i) ==
    IF i > Len(text) THEN <<>>
    ELSE LET from == i + Len(PLACEHOLDER_PREFIX)
             k    == RunEnd(text, from)
         IN  IF /\ StartsAt(text, PLACEHOLDER_PREFIX, i)
                /\ k > from
                /\ StartsAt(text, PLACEHOLDER_SUFFIX, k)
             THEN <<"{">> \o RemoveSeparators(SubSeq(text, from, k - 1)) \o <<"}">>
                      \o UnmaskFrom(text, k + Len(PLACEHOLDER_SUFFIX))
             ELSE <<text[i]>> \o UnmaskFrom(text, i + 1)

\* the replace without its "g" flag: only the first marker is decoded
RECURSIVE UnmaskFirstFrom(_, _)
UnmaskFirstFrom(text, i) ==
    IF i > Len(text) THEN <<>>
    ELSE LET from == i + Len(PLACEHOLDER_PREFIX)
             k    == RunEnd(text, from)
         IN  IF /\ StartsAt(text, PLACEHOLDER_PREFIX, i)
                /\ k > from
                /\ StartsAt(text, PLACEHOLDER_SUFFIX, k)
             THEN <<"{">> \o RemoveSeparators(SubSeq(text, from, k - 1)) \o <<"}">>
                      \o SubSeq(text, k + Len(PLACEHOLDER_SUFFIX), Len(text))
             ELSE <<text[i]>> \o UnmaskFirstFrom(text, i + 1)

unmaskFirstOnly(text) == UnmaskFirstFrom(text, 1)

unmaskPlaceholders(text) == UnmaskFrom(text, 1)


(***************************************************************************)
(* JavaScript values and string functions used by the pipeline.            *)
(***************************************************************************)
\* null and undefined, kept apart from every text
Null == <<"null">>

Undefined == <<"undefined">>

\* the truthiness test of if (x), !x and x || y
Truthy(v) == v \notin {<<>>, Null, Undefined}

\* c.toUpperCase() for one code unit
toUpperCase(c) ==
    CASE c = "a" -> "A"
      [] c = "b" -> "B"
      [] OTHER   -> c

\* texts.join("\n")
RECURSIVE JoinLines(_)
JoinLines(texts) ==
    IF Len(texts) = 0 THEN <<>>
    ELSE IF Len(texts) = 1 THEN Head(texts)
    ELSE Head(texts) \o <<"LF">> \o JoinLines(Tail(texts))

\* s.split("\n"): always at least one line
RECURSIVE SplitLines(_)
SplitLines(s) ==
    LET ks == {k \in 1..Len(s) : s[k] = "LF"}
    IN  IF ks = {} THEN <<s>>
        ELSE LET k == CHOOSE k \in ks : \A m \in ks : k <= m
             IN  <<SubSeq(s, 1, k - 1)>> \o SplitLines(SubSeq(s, k + 1, Len(s)))

WhiteSpace == {"SP", "LF"}

\* s.trim()
RECURSIVE trim(_)
trim(s) ==
    IF s = <<>> THEN s
    ELSE IF Head(s) \in WhiteSpace THEN trim(Tail(s))
    ELSE IF s[Len(s)] \in WhiteSpace THEN trim(SubSeq(s, 1, Len(s) - 1))
    ELSE s

\* array.slice(from, from + size) with a 1-based from
Slice(arr, from, size) ==
    SubSeq(arr, from, IF from + size - 1 > Len(arr) THEN Len(arr) ELSE from + size - 1)

(***************************************************************************)
(* The progress store: a JavaScript object from source text to value.      *)
(***************************************************************************)
EmptyProgress == [t \in {} |-> <<>>]

\* progress[sourceText]
Get(progress, sourceText) ==
    IF sourceText \in DOMAIN progress THEN progress[sourceText] ELSE Undefined

\* progress[sourceText] = value
Put(progress, sourceText, value) ==
    [t \in DOMAIN progress \cup {sourceText} |->
        IF t = sourceText THEN value ELSE progress[t]]

\* what fs.writeJson leaves in the file: JSON drops undefined values
ToJson(progress) ==
    [t \in {u \in DOMAIN progress : progress[u] # Undefined} |-> progress[t]]

(***************************************************************************)
(* The job: config.json and the rows of the tabular file.                  *)
(***************************************************************************)
\* config.languages, config.baseLanguage, config.keyColumn
ConfigLanguages == <<"en", "fr", "de">>

BaseLanguage == "en"

KeyColumn == "key"

Columns == {KeyColumn} \cup {ConfigLanguages[i] : i \in 1..Len(ConfigLanguages)}

\* targetLang ? [targetLang] : config.languages.filter(l => l !== baseLanguage)
RECURSIVE FilterNotBase(_)
FilterNotBase(langs) ==
    IF langs = <<>> THEN <<>>
    ELSE IF Head(langs) # BaseLanguage
         THEN <<Head(langs)>> \o FilterNotBase(Tail(langs))
         ELSE FilterNotBase(Tail(langs))

TargetLanguagesOf(targetLang) ==
    IF targetLang # "" THEN <<targetLang>> ELSE FilterNotBase(ConfigLanguages)

\* config.languages.includes(lang) for every target language
LanguagesValid(targets) ==
    \A i \in 1..Len(targets) :
        \E k \in 1..Len(ConfigLanguages) : ConfigLanguages[k] = targets[i]

(***************************************************************************)
(* The batch planner.                                                      *)
(***************************************************************************)
isTextSuitableForBatch(text, maxTextLength) ==
    ~Includes(text, <<"LF">>) /\ Len(text) <= maxTextLength

\* the collecting loop of processBatchTranslations, from row i on
RECURSIVE CollectShortTexts(_, _, _, _, _, _)
CollectShortTexts(recs, lang, progress, maxTextLength, i, shortTexts) ==
    IF i > Len(recs) THEN shortTexts
    ELSE LET sourceText == recs[i][BaseLanguage]
             take == /\ ~Truthy(recs[i][lang])
                     /\ Truthy(sourceText)
                     /\ ~Truthy(Get(progress, sourceText))
                     /\ isTextSuitableForBatch(sourceText, maxTextLength)
                     /\ \A k \in 1..Len(shortTexts) : shortTexts[k] # sourceText
         IN  CollectShortTexts(recs, lang, progress, maxTextLength, i + 1,
                 IF take THEN Append(shortTexts, sourceText) ELSE shortTexts)

\* texts[i][0] === texts[i][0].toUpperCase()
FirstIsUpper(text) == text[1] = toUpperCase(text[1])

\* the loop of translateBatch throws (and the process exits with status 1)
\* when the response has a line beyond the texts, or an empty line for a
\* text whose first character equals its upper-case form
BatchThrows(texts, translatedBatch) ==
    LET translated == SplitLines(translatedBatch)
    IN  \E i \in 1..Len(translated) :
            \/ i > Len(texts)
            \/ FirstIsUpper(texts[i]) /\ trim(translated[i]) = <<>>

\* a case adjustment that capitalises whatever the source starts with
AdjustCaseAlways(text, line) ==
    LET t == trim(line)
    IN  IF t # <<>> /\ t[1] # toUpperCase(t[1])
        THEN <<toUpperCase(t[1])>> \o Tail(t)
        ELSE t

\* one line of the loop of translateBatch: trim, then the case adjustment
AdjustCase(text, line) ==
    LET t == trim(line)
    IN  IF FirstIsUpper(text) /\ t[1] # toUpperCase(t[1])
        THEN <<toUpperCase(t[1])>> \o Tail(t)
        ELSE t

\* what translateBatch returns when it does not throw
BatchTranslations(texts, translatedBatch) ==
    LET translated == SplitLines(translatedBatch)
    IN  [i \in 1..Len(translated) |-> AdjustCase(texts[i], translated[i])]

\* the storing loop of processBatchTranslations, from position j on
RECURSIVE StoreBatch(_, _, _, _)
StoreBatch(progress, batch, translations, j) ==
    IF j > Len(batch) THEN progress
    ELSE StoreBatch(
             Put(progress, batch[j],
                 IF j <= Len(translations) THEN translations[j] ELSE Undefined),
             batch, translations, j + 1)

(***************************************************************************)
(* Rows and the tabular file.                                              *)
(***************************************************************************)
\* the rebuild loop of translateProject
RebuildRecords(recs, progress, lang) ==
    [i \in 1..Len(recs) |->
        IF ~Truthy(Get(progress, recs[i][BaseLanguage]))
        THEN [recs[i] EXCEPT ![lang] = Null]
        ELSE recs[i]]

\* the loop that copies progress into the rows (saveCurrentProgress and
\* gracefulShutdown hold the same loop)
SyncRecords(recs, progress, lang) ==
    [i \in 1..Len(recs) |->
        IF Truthy(Get(progress, recs[i][BaseLanguage]))
        THEN [recs[i] EXCEPT ![lang] = Get(progress, recs[i][BaseLanguage])]
        ELSE recs[i]]

\* the columns of an output row, in the order the row object gets them
OutputColumns == <<KeyColumn>> \o ConfigLanguages

\* an output that leaves out the rows that miss a translation
CsvOutputOfTranslated(recs) ==
    SelectSeq(recs, LAMBDA r : \A c \in Units(ConfigLanguages) : Truthy(r[c]))

\* csvOutput of saveCurrentProgress, as the file holds it
CsvOutput(recs) ==
    [i \in 1..Len(recs) |->
        [c \in Units(OutputColumns) |->
            IF c = KeyColumn THEN recs[i][c]
            ELSE IF Truthy(recs[i][c]) THEN recs[i][c] ELSE <<>>]]

(***************************************************************************)
(* The remote service.  A request of n lines is answered by n lines, or by *)
(* one line less or one line more.  The lines of an answer are raw words:  *)
(* a lower-case word, a padded upper-case word, or nothing; the words of   *)
(* one answer follow one another in the order of RawWords.                 *)
(***************************************************************************)
RawWords == << <<"b">>, <<"SP", "B">>, <<>> >>

ResponseLines(first, m) ==
    [i \in 1..m |-> RawWords[((first + i - 2) % Len(RawWords)) + 1]]

\* response.data.data: what the service may answer to a request text
Responses(requestText) ==
    LET n == Len(SplitLines(requestText))
    IN  {JoinLines(ResponseLines(first, n)) : first \in 1..Len(RawWords)}
            \cup {JoinLines(ResponseLines(1, m)) : m \in {k \in {n - 1, n + 1} : k >= 1}}

(***************************************************************************)
(* State.                                                                  *)
(***************************************************************************)
VARIABLES
    argv,            \* the command line: lang, pro, skipBatch, batchSize,
                     \* rebuild, batchMaxTextLength
    csvFile,         \* the rows of the tabular file on disk
    progFile,        \* per language, the progress file on disk
    torn,            \* the progress files that were left half-written
    currentState,    \* the global currentState; records = <<>>, config =
                     \* FALSE, currentLang = "", hasProgress = FALSE,
                     \* progressPath = "", csvPath = FALSE stand for null
    targetLanguages, \* translateProject: targetLanguages
    langIdx,         \* translateProject: position of lang in targetLanguages
    rowIdx,          \* translateProject: position of record in the item pass
    shortTexts,      \* processBatchTranslations: shortTexts
    batchStart,      \* processBatchTranslations: i (1-based)
    call,            \* the translateText invocation in progress, or the last
    scpNext,         \* where the main sequence goes on after saveCurrentProgress
    pc,              \* the await (or loop head) the main sequence is at
    hpc,             \* the await gracefulShutdown is at, "idle" when not running
    hsnap,           \* what gracefulShutdown is writing, and its exit code
    exitCode,        \* the status the process exited with, -1 while it runs
    run,             \* the number of the current run of the script
    startFiles,      \* the files as they were when the current run started
    lastEnd,         \* how the last run that ended did end
    codec,           \* the codec specification's state
    retry            \* the retry specification's state

vars == <<argv, csvFile, progFile, torn, currentState, targetLanguages, langIdx,
          rowIdx, shortTexts, batchStart, call, scpNext, pc, hpc, hsnap,
          exitCode, run, startFiles, lastEnd, codec, retry>>

files == <<csvFile, progFile, torn>>

loops == <<targetLanguages, langIdx, rowIdx, shortTexts, batchStart>>

handler == <<hpc, hsnap>>

meta == <<argv, run, startFiles, lastEnd, codec, retry>>

InitialState ==
    [records |-> <<>>, config |-> FALSE, currentLang |-> "",
     progress |-> EmptyProgress, hasProgress |-> FALSE,
     progressPath |-> "", csvPath |-> FALSE]

NoCall ==
    [texts |-> <<>>, text |-> <<>>, caller |-> "none", pro |-> FALSE,
     retryCount |-> 0, attempts |-> 0, raw |-> <<>>, outcome |-> "none"]

NoSnap == [path |-> "", progress |-> EmptyProgress, csv |-> <<>>, code |-> 0,
           at |-> ""]

\* the phase of the run a program point belongs to
Phase(at, caller) ==
    CASE at \in {"init", "csv_read", "ensure_dir", "load_progress"} -> "load"
      [] at \in {"batch", "batch_save", "batch_wait"} -> "batch_pass"
      [] at \in {"item", "item_save", "item_wait"} -> "item_pass"
      [] at \in {"http", "retry_wait"} ->
             IF caller = "batch" THEN "batch_pass" ELSE "item_pass"
      [] OTHER -> "flush"

\* how a run ended when a signal or a kill ended it in the given phase
Interrupted(phase) ==
    IF phase = "item_pass" THEN "interrupted_in_item_pass" ELSE "interrupted"

NoEnd == "none"

CodecIdle == [pc |-> "off", text |-> <<>>, masked |-> <<>>, resp |-> <<>>,
              prose |-> <<>>, out |-> <<>>]

\* the retry specification is not running
RetryIdle ==
    [pc |-> "off", retryCount |-> 0, hasStatus |-> FALSE, status |-> 0,
     delay |-> 0, wait |-> 0, prevStatus |-> 0, prevWait |-> 0]

\* the loop variable lang of translateProject
lang == targetLanguages[langIdx]

\* the awaits of the main sequence: only there can a signal handler run
AwaitPoints ==
    {"init", "csv_read", "ensure_dir", "load_progress", "http", "retry_wait",
     "batch_save", "batch_wait", "item_save", "item_wait", "scp_prog", "scp_csv"}

\* the process is running: not exited, not killed, and not at the end of
\* translateProject with nothing left on the event loop
Alive == pc \notin {"exited", "dead"} /\ ~(pc = "done" /\ hpc = "idle")

(***************************************************************************)
(* Initial states: a job on disk, no progress files, a command line.       *)
(***************************************************************************)
\* a text too long for a batch, whatever the configured maximum of the model
LongText(maxTextLength) == [i \in 1..(maxTextLength + 1) |-> "a"]

\* a translation already present in the tabular file
OldText == <<"b", "b">>

SourceTexts ==
    {<<"a">>, <<"A">>, <<"a", "LF", "a">>, LongText(MaxBatchTextLength), <<>>}

\* the texts short enough for a batch
BatchableTexts == {<<"a">>, <<"A">>}

Row(k, en, fr, de) ==
    [c \in Columns |->
        CASE c = KeyColumn -> <<"k", k>>
          [] c = "en" -> en
          [] c = "fr" -> fr
          [] c = "de" -> de]

RowKeys == <<"1", "2", "3", "4">>

Job(src, fr) == [i \in 1..NumRows |-> Row(RowKeys[i], src[i], fr[i], <<>>)]

Argv(targetLang, skipBatch, rebuild) ==
    [lang |-> targetLang, pro |-> FALSE, skipBatch |-> skipBatch,
     batchSize |-> BatchSize, rebuild |-> rebuild,
     batchMaxTextLength |-> MaxBatchTextLength]

\* the jobs and command lines the model starts from: every pair of source
\* texts with empty French cells under the default options; the batchable
\* texts with French cells filled or not under every choice of --skip-batch
\* and --rebuild; one job translated to every language, with one row to
\* translate; one job run with --pro, with a text for the batch pass and a
\* text for the item pass; one job whose target language is the base
\* language, with and without --rebuild; and one job run with --batch-size 1,
\* whose batch pass has a chunk per row
Starts ==
    {[job |-> Job(src, [i \in 1..NumRows |-> <<>>]), argv |-> Argv("fr", FALSE, FALSE)] :
        src \in [1..NumRows -> SourceTexts]}
    \cup
    {[job |-> Job(src, fr), argv |-> Argv("fr", sb, rb)] :
        src \in [1..NumRows -> BatchableTexts],
        fr \in [1..NumRows -> {<<>>, OldText}],
        sb \in BOOLEAN, rb \in BOOLEAN}
    \cup
    {[job |-> [i \in 1..NumRows |->
                  IF i = 1 THEN Row(RowKeys[i], <<"A">>, <<>>, <<>>)
                  ELSE Row(RowKeys[i], <<"a">>, OldText, OldText)],
      argv |-> Argv("", sb, FALSE)] : sb \in BOOLEAN}
    \cup
    {[job |-> Job([i \in 1..NumRows |->
                      IF i = 1 THEN <<"a">> ELSE LongText(MaxBatchTextLength)],
                  [i \in 1..NumRows |-> <<>>]),
      argv |-> [Argv("fr", FALSE, FALSE) EXCEPT !.pro = TRUE]]}
    \cup
    {[job |-> Job([i \in 1..NumRows |-> IF i = 1 THEN <<"a">> ELSE <<"A">>],
                  [i \in 1..NumRows |-> <<>>]),
      argv |-> Argv(BaseLanguage, FALSE, rb)] : rb \in BOOLEAN}
    \cup
    {[job |-> Job([i \in 1..NumRows |-> IF i % 2 = 1 THEN <<"a">> ELSE <<"A">>],
                  [i \in 1..NumRows |-> <<>>]),
      argv |-> [Argv("fr", FALSE, FALSE) EXCEPT !.batchSize = 1]]}

NoProgressFiles == [l \in Columns \ {KeyColumn} |-> EmptyProgress]

Init ==
    /\ \E start \in Starts :
           /\ argv = start.argv
           /\ csvFile = start.job
    /\ progFile = NoProgressFiles
    /\ torn = {}
    /\ currentState = InitialState
    /\ targetLanguages = <<>>
    /\ langIdx = 0
    /\ rowIdx = 0
    /\ shortTexts = <<>>
    /\ batchStart = 0
    /\ call = NoCall
    /\ scpNext = ""
    /\ pc = "init"
    /\ hpc = "idle"
    /\ hsnap = NoSnap
    /\ exitCode = -1
    /\ run = 1
    /\ startFiles = [csv |-> csvFile, prog |-> progFile]
    /\ lastEnd = NoEnd
    /\ codec = CodecIdle
    /\ retry = RetryIdle

(***************************************************************************)
(* process.exit(code), from the main sequence or from the handler: the     *)
(* memory of the process is gone, the files stay.                          *)
(***************************************************************************)
ProcessGone ==
    /\ currentState' = InitialState
    /\ targetLanguages' = <<>>
    /\ langIdx' = 0
    /\ rowIdx' = 0
    /\ shortTexts' = <<>>
    /\ batchStart' = 0
    /\ scpNext' = ""
    /\ hpc' = "idle"
    /\ hsnap' = NoSnap

\* lines 172-178, 597: the progress files fs.writeJson is writing: the one of
\* the main sequence while it awaits saveProgressFile, the one of the handler
\* while it does
WritesInProgress ==
    (IF pc \in {"batch_save", "item_save", "scp_prog"}
     THEN {currentState.progressPath} ELSE {})
    \cup (IF hpc = "h_prog" THEN {hsnap.path} ELSE {})

\* the process ends while fs.writeJson writes: the file is as it was when the
\* write had not opened it yet, or it is left with a part of the new text,
\* which is no JSON text: what it held is gone and no entry can be read
ProcessEndsWrites ==
    /\ \E cut \in SUBSET WritesInProgress :
         /\ torn' = torn \cup cut
         /\ progFile' = [l \in DOMAIN progFile |-> IF l \in cut THEN EmptyProgress ELSE progFile[l]]
    /\ csvFile' = csvFile

Exit(code, how) ==
    /\ pc' = "exited"
    /\ exitCode' = code
    /\ lastEnd' = how
    /\ ProcessGone
    /\ ProcessEndsWrites
    /\ UNCHANGED <<argv, run, startFiles, codec, retry>>

(***************************************************************************)
(* translateProject: loading the job.                                      *)
(***************************************************************************)
\* lines 445-464: config.json is read, csvPath is set, the CSV read starts
ReadConfig ==
    /\ pc = "init"
    /\ currentState' = [currentState EXCEPT !.config = TRUE, !.csvPath = TRUE]
    /\ pc' = "csv_read"
    /\ UNCHANGED <<files, loops, call, scpNext, handler, exitCode, meta>>

\* lines 465-495: the rows are parsed, the target languages determined and
\* validated, and the loop over the languages is entered
ReadCsv ==
    /\ pc = "csv_read"
    /\ LET targets == TargetLanguagesOf(argv.lang)
       IN  IF ~LanguagesValid(targets)
           THEN /\ Exit(1, "fatal")
                /\ call' = call
           ELSE /\ targetLanguages' = targets
                /\ IF targets = <<>>
                   THEN /\ currentState' = [currentState EXCEPT !.records = csvFile]
                        /\ langIdx' = 0
                        /\ pc' = "scp_begin"
                        /\ scpNext' = "done"
                   ELSE /\ currentState' =
                               [currentState EXCEPT !.records = csvFile,
                                                    !.currentLang = targets[1]]
                        /\ langIdx' = 1
                        /\ pc' = "ensure_dir"
                        /\ scpNext' = scpNext
                /\ UNCHANGED <<files, rowIdx, shortTexts, batchStart, call,
                               handler, exitCode, meta>>

\* lines 497-501: the language directory exists; progressPath is set and the
\* load of the progress file starts
EnsureDir ==
    /\ pc = "ensure_dir"
    /\ currentState' = [currentState EXCEPT !.progressPath = lang]
    /\ pc' = "load_progress"
    /\ UNCHANGED <<files, loops, call, scpNext, handler, exitCode, meta>>

\* a loadProgressFile that makes an entry of the part of a text it finds in
\* a half-written file
loadProgressFilePartial(progressFilePath) ==
    IF progressFilePath \in torn THEN Put(EmptyProgress, <<"a">>, <<"a">>)
                                 ELSE progFile[progressFilePath]

\* lines 156-170: the content of the file, or {} when there is no file (a
\* file with no entry in the model) or when fs.readJson throws because the
\* file does not hold a whole JSON text
loadProgressFile(progressFilePath) ==
    IF progressFilePath \in torn THEN EmptyProgress
                                 ELSE progFile[progressFilePath]

\* lines 499-525 and 302-326: the progress is loaded, the rebuild loop runs,
\* and unless skipped the batch pass collects its texts
LoadProgress ==
    /\ pc = "load_progress"
    /\ LET loaded == loadProgressFile(currentState.progressPath)
           recs   == IF argv.rebuild
                     THEN RebuildRecords(currentState.records, loaded, lang)
                     ELSE currentState.records
           short  == CollectShortTexts(recs, lang, loaded,
                                       argv.batchMaxTextLength, 1, <<>>)
       IN  /\ currentState' = [currentState EXCEPT !.progress = loaded,
                                                    !.hasProgress = TRUE,
                                                    !.records = recs]
           /\ IF ~argv.skipBatch /\ short # <<>>
              THEN /\ shortTexts' = short
                   /\ batchStart' = 1
                   /\ rowIdx' = 0
                   /\ pc' = "batch"
              ELSE /\ shortTexts' = <<>>
                   /\ batchStart' = 0
                   /\ rowIdx' = 1
                   /\ pc' = "item"
    /\ UNCHANGED <<files, targetLanguages, langIdx, call, scpNext, handler,
                   exitCode, meta>>

(***************************************************************************)
(* translateText: one invocation is the record call; the request is in     *)
(* flight while pc = "http".                                               *)
(***************************************************************************)
\* a translateText that posts whatever text it is given
ReturnsAtOnceNever(text) == FALSE

\* lines 100-103: if (!text) return text
ReturnsAtOnce(text) == ~Truthy(text)

\* the first axios.post of an invocation (retryCount = 0)
NewCall(texts, text, caller, pro) ==
    [texts |-> texts, text |-> text, caller |-> caller, pro |-> pro,
     retryCount |-> 0, attempts |-> 1, raw |-> <<>>, outcome |-> "pending"]

\* the path of the request: pro ? "/v1/translate" : "/translate"
Endpoint(pro) == IF pro THEN "/v1/translate" ELSE "/translate"

\* the text posted: maskPlaceholders(text).maskedText
RequestText == maskPlaceholders(call.text).maskedText

\* the invocation has returned: its retry count is gone with its frames
Returned(raw) ==
    [call EXCEPT !.raw = raw, !.outcome = "returned", !.retryCount = 0,
                 !.attempts = 0]

\* requests that stay unanswered after they failed
OutstandingKeepsFailed ==
    IF pc \in {"http", "retry_wait"}
    THEN {<<call.caller, a>> : a \in 1..call.attempts}
    ELSE {}

\* line 117: the requests awaiting their answer: the axios.post translateText
\* awaits.  processBatchTranslations, the item pass and the retries post the
\* next request after this await; gracefulShutdown and saveCurrentProgress
\* (lines 180-233, 582-608) post none.
Outstanding ==
    IF pc = "http" /\ call.outcome = "pending"
    THEN {<<call.caller, call.attempts>>}
    ELSE {}

\* a catch that gives up one failure later
GivesUpLate(retryCount) == retryCount > MAX_RETRIES

\* the catch of translateText gives up: retryCount >= MAX_RETRIES
GivesUp(retryCount) == retryCount >= MAX_RETRIES

\* lines 129-144: the request failed and translateText waits for a retry
HttpFailRetry ==
    /\ pc = "http"
    /\ ~GivesUp(call.retryCount)
    /\ pc' = "retry_wait"
    /\ UNCHANGED <<files, currentState, loops, call, scpNext, handler,
                   exitCode, meta>>

\* lines 145-152: the wait is over, translateText calls itself and posts again
RetryWaited ==
    /\ pc = "retry_wait"
    /\ call' = [call EXCEPT !.retryCount = @ + 1, !.attempts = @ + 1]
    /\ pc' = "http"
    /\ UNCHANGED <<files, currentState, loops, scpNext, handler, exitCode, meta>>

\* a batch pass that keeps the first text of a failed chunk as its own
\* translation and writes the progress file before it exits
HttpFailBatchStoresFirst ==
    /\ pc = "http"
    /\ call.caller = "batch"
    /\ GivesUp(call.retryCount)
    /\ call' = [call EXCEPT !.outcome = "thrown"]
    /\ pc' = "exited"
    /\ exitCode' = 1
    /\ lastEnd' = "fatal"
    /\ ProcessGone
    /\ progFile' = [progFile EXCEPT ![currentState.progressPath] =
                        ToJson(Put(currentState.progress, call.texts[1],
                                   call.texts[1]))]
    /\ UNCHANGED <<csvFile, torn, argv, run, startFiles, codec, retry>>

\* lines 133-138, 364-367: the request of a batch failed for the last time;
\* processBatchTranslations catches the error and exits
HttpFailBatch ==
    /\ pc = "http"
    /\ call.caller = "batch"
    /\ GivesUp(call.retryCount)
    /\ call' = [call EXCEPT !.outcome = "thrown"]
    /\ Exit(1, "fatal")

\* an item pass that ends the run when a row fails for the last time
HttpFailItemAborts ==
    /\ pc = "http"
    /\ call.caller = "item"
    /\ GivesUp(call.retryCount)
    /\ call' = [call EXCEPT !.outcome = "thrown"]
    /\ Exit(1, "fatal")

\* lines 133-138, 555-560: the request of a row failed for the last time;
\* the item pass logs the error and goes on with the next row
HttpFailItem ==
    /\ pc = "http"
    /\ call.caller = "item"
    /\ GivesUp(call.retryCount)
    /\ call' = [call EXCEPT !.outcome = "thrown"]
    /\ rowIdx' = rowIdx + 1
    /\ pc' = "item"
    /\ UNCHANGED <<files, currentState, targetLanguages, langIdx, shortTexts,
                   batchStart, scpNext, handler, exitCode, meta>>

(***************************************************************************)
(* processBatchTranslations and translateBatch.                            *)
(***************************************************************************)
\* chunks that take one text more than batchSize
BatchOverlapping == Slice(shortTexts, batchStart, argv.batchSize + 1)

\* shortTexts.slice(i, i + batchSize)
Batch == Slice(shortTexts, batchStart, argv.batchSize)

\* lines 333-347, 246-256: the next chunk is joined and posted (translateBatch
\* passes no pro flag to translateText); after the last chunk
\* saveCurrentProgress is called
BatchNext ==
    /\ pc = "batch"
    /\ IF batchStart <= Len(shortTexts)
       THEN /\ call' = NewCall(Batch, JoinLines(Batch), "batch", FALSE)
            /\ pc' = "http"
            /\ scpNext' = scpNext
       ELSE /\ call' = call
            /\ pc' = "scp_begin"
            /\ scpNext' = "item"
    /\ UNCHANGED <<files, currentState, loops, handler, exitCode, meta>>

\* lines 125-128, 258-291, 349-360: the request of a batch is answered; the
\* answer is unmasked, split, trimmed and case-adjusted, stored in the
\* progress, and the save of the progress file starts; or the loop of
\* translateBatch throws and the process exits with status 1
HttpOkBatch ==
    /\ pc = "http"
    /\ call.caller = "batch"
    /\ \E raw \in Responses(RequestText) :
         LET translatedBatch == unmaskPlaceholders(raw)
         IN  IF BatchThrows(call.texts, translatedBatch)
             THEN /\ call' = Returned(raw)
                  /\ Exit(1, "fatal")
             ELSE /\ call' = Returned(raw)
                  /\ currentState' =
                         [currentState EXCEPT !.progress =
                             StoreBatch(@, call.texts,
                                 BatchTranslations(call.texts, translatedBatch), 1)]
                  /\ pc' = "batch_save"
                  /\ UNCHANGED <<files, loops, scpNext, handler, exitCode, meta>>

\* saveProgressFile: fs.writeJson(progressPath, progress) is done, or it has
\* failed and the catch of saveProgressFile has logged the error
\* (two writes of two texts to one file at a time can leave a mix of both)
WriteProgress ==
    \/ /\ progFile' = [progFile EXCEPT ![currentState.progressPath] =
                                           ToJson(currentState.progress)]
       /\ torn' = torn \ {currentState.progressPath}
    \/ /\ progFile' = progFile
       /\ torn' = torn
    \/ /\ hpc = "h_prog"
       /\ hsnap.path = currentState.progressPath
       /\ hsnap.progress # ToJson(currentState.progress)
       /\ progFile' = [progFile EXCEPT ![currentState.progressPath] = EmptyProgress]
       /\ torn' = torn \cup {currentState.progressPath}

\* lines 356-363: the progress file is written after the batch; the pause starts
BatchSaved ==
    /\ pc = "batch_save"
    /\ WriteProgress
    /\ pc' = "batch_wait"
    /\ call' = NoCall
    /\ UNCHANGED <<csvFile, currentState, loops, scpNext, handler,
                   exitCode, meta>>

\* a batch pass that is left for the item pass after its first chunk
BatchWaitedLeaves ==
    /\ pc = "batch_wait"
    /\ rowIdx' = 1
    /\ pc' = "item"
    /\ UNCHANGED <<files, currentState, targetLanguages, langIdx, batchStart,
                   shortTexts, call, scpNext, handler, exitCode, meta>>

\* a batch loop whose index stays where it is (i += 0)
BatchWaitedStays ==
    /\ pc = "batch_wait"
    /\ pc' = "batch"
    /\ UNCHANGED <<files, currentState, loops, call, scpNext, handler,
                   exitCode, meta>>

\* line 333: the pause is over, i += batchSize
BatchWaited ==
    /\ pc = "batch_wait"
    /\ batchStart' = batchStart + argv.batchSize
    /\ pc' = "batch"
    /\ UNCHANGED <<files, currentState, targetLanguages, langIdx, rowIdx,
                   shortTexts, call, scpNext, handler, exitCode, meta>>

(***************************************************************************)
(* translateProject: the item pass.                                        *)
(***************************************************************************)
\* lines 528-564, 100-121: the loop head of the item pass for row rowIdx
ItemNext ==
    /\ pc = "item"
    /\ IF rowIdx > Len(currentState.records)
       THEN /\ pc' = "scp_begin"
            /\ scpNext' = "next_lang"
            /\ UNCHANGED <<currentState, rowIdx, call>>
       ELSE LET record     == currentState.records[rowIdx]
                sourceText == record[BaseLanguage]
            IN  /\ scpNext' = scpNext
                /\ IF Truthy(record[lang])
                   THEN \* continue
                        /\ rowIdx' = rowIdx + 1
                        /\ pc' = "item"
                        /\ UNCHANGED <<currentState, call>>
                   ELSE IF Truthy(Get(currentState.progress, sourceText))
                   THEN \* record[lang] = currentState.progress[sourceText]
                        /\ currentState' =
                               [currentState EXCEPT !.records[rowIdx][lang] =
                                   Get(currentState.progress, sourceText)]
                        /\ rowIdx' = rowIdx + 1
                        /\ pc' = "item"
                        /\ call' = call
                   ELSE IF ReturnsAtOnce(sourceText)
                   THEN \* translateText returns the empty text at once
                        /\ call' = [NewCall(<<sourceText>>, sourceText, "item",
                                            argv.pro)
                                       EXCEPT !.attempts = 0, !.outcome = "returned"]
                        /\ currentState' =
                               [currentState EXCEPT
                                   !.progress = Put(@, sourceText, sourceText),
                                   !.records[rowIdx][lang] = sourceText]
                        /\ rowIdx' = rowIdx
                        /\ pc' = "item_save"
                   ELSE \* translateText posts the masked text
                        /\ call' = NewCall(<<sourceText>>, sourceText, "item",
                                           argv.pro)
                        /\ rowIdx' = rowIdx
                        /\ pc' = "http"
                        /\ currentState' = currentState
    /\ UNCHANGED <<files, targetLanguages, langIdx, shortTexts, batchStart,
                   handler, exitCode, meta>>

\* lines 125-128, 544-551: the request of a row is answered; the unmasked
\* answer goes to the progress and to the row, and the save of the progress
\* file starts
HttpOkItem ==
    /\ pc = "http"
    /\ call.caller = "item"
    /\ \E raw \in Responses(RequestText) :
         LET translation == unmaskPlaceholders(raw)
             sourceText  == currentState.records[rowIdx][BaseLanguage]
         IN  /\ call' = Returned(raw)
             /\ currentState' =
                    [currentState EXCEPT
                        !.progress = Put(@, sourceText, translation),
                        !.records[rowIdx][lang] = translation]
    /\ pc' = "item_save"
    /\ UNCHANGED <<files, loops, scpNext, handler, exitCode, meta>>

\* lines 547-554: the progress file is written after the row; the pause starts
ItemSaved ==
    /\ pc = "item_save"
    /\ WriteProgress
    /\ pc' = "item_wait"
    /\ call' = NoCall
    /\ UNCHANGED <<csvFile, currentState, loops, scpNext, handler,
                   exitCode, meta>>

\* line 528: the pause is over, the loop goes to the next row
ItemWaited ==
    /\ pc = "item_wait"
    /\ rowIdx' = rowIdx + 1
    /\ pc' = "item"
    /\ UNCHANGED <<files, currentState, targetLanguages, langIdx, shortTexts,
                   batchStart, call, scpNext, handler, exitCode, meta>>

(***************************************************************************)
(* saveCurrentProgress, called by the main sequence.                       *)
(***************************************************************************)
\* the guard of saveCurrentProgress: records, config and csvPath are set
HasStateToSave(cs) == cs.records # <<>> /\ cs.config /\ cs.csvPath

\* lines 180-198: saveCurrentProgress is entered; with a progress and a path
\* the write of the progress file starts.  (In the main sequence the progress
\* is loaded whenever a language is current, so the loop of lines 201-209
\* cannot fail here.)
ScpBegin ==
    /\ pc = "scp_begin"
    /\ HasStateToSave(currentState)
    /\ pc' = IF currentState.hasProgress /\ currentState.progressPath # ""
             THEN "scp_prog" ELSE "scp_csv"
    /\ UNCHANGED <<files, currentState, loops, call, scpNext, handler,
                   exitCode, meta>>

\* lines 193-228: the progress file is written; the rows take the progress of
\* the current language; the CSV text is built and its write starts
ScpProgWritten ==
    /\ pc = "scp_prog"
    /\ WriteProgress
    /\ currentState' =
           [currentState EXCEPT !.records =
               IF currentState.currentLang # ""
               THEN SyncRecords(@, currentState.progress, currentState.currentLang)
               ELSE @]
    /\ pc' = "scp_csv"
    /\ UNCHANGED <<csvFile, loops, call, scpNext, handler, exitCode, meta>>

\* line 228: the CSV file is written (its text was built from the rows at
\* line 212; the handler can change no row in between, it copies the same
\* progress into the same column); the caller goes on
ScpCsvWritten ==
    /\ pc = "scp_csv"
    /\ csvFile' = CsvOutput(currentState.records)
    /\ pc' = CASE scpNext = "item"      -> "item"
               [] scpNext = "next_lang" -> "next_lang"
               [] scpNext = "done"      -> "done"
    /\ rowIdx' = IF scpNext = "item" THEN 1 ELSE rowIdx
    /\ scpNext' = ""
    /\ lastEnd' = IF scpNext = "done" THEN "completed"
                  ELSE lastEnd
    /\ exitCode' = IF scpNext = "done" /\ hpc = "idle" THEN 0 ELSE exitCode
    /\ UNCHANGED <<progFile, torn, currentState, targetLanguages, langIdx,
                   shortTexts, batchStart, call, handler, argv, run,
                   startFiles, codec, retry>>

\* lines 489-495, 568-572: the language is done; the next one becomes current,
\* or the final saveCurrentProgress is called
NextLang ==
    /\ pc = "next_lang"
    /\ IF langIdx < Len(targetLanguages)
       THEN /\ langIdx' = langIdx + 1
            /\ currentState' =
                   [currentState EXCEPT !.currentLang = targetLanguages[langIdx + 1]]
            /\ pc' = "ensure_dir"
            /\ scpNext' = scpNext
       ELSE /\ langIdx' = langIdx
            /\ currentState' = currentState
            /\ pc' = "scp_begin"
            /\ scpNext' = "done"
    /\ UNCHANGED <<files, targetLanguages, rowIdx, shortTexts, batchStart,
                   call, handler, exitCode, meta>>

(***************************************************************************)
(* gracefulShutdown, started by SIGINT or SIGTERM while the main sequence  *)
(* is suspended at an await.  Its awaits let the main sequence go on.      *)
(***************************************************************************)
\* lines 582-597, 180-198: the handler copies the progress of the current
\* language into the rows and enters saveCurrentProgress, which starts the
\* write of the progress file (its text is built now), or fails at line 204
\* when a language is current and no progress is loaded, or has nothing to do
Signal ==
    /\ Alive
    /\ run < MaxRuns
    /\ pc \in AwaitPoints
    /\ hpc = "idle"
    /\ LET cs   == currentState
           recs == IF cs.currentLang # "" /\ cs.hasProgress
                   THEN SyncRecords(cs.records, cs.progress, cs.currentLang)
                   ELSE cs.records
       IN  /\ currentState' = [cs EXCEPT !.records = recs]
           /\ IF ~HasStateToSave(cs)
              THEN /\ hpc' = "h_sleep"
                   /\ hsnap' = [NoSnap EXCEPT !.code = 0, !.at = Phase(pc, call.caller)]
              ELSE IF cs.hasProgress /\ cs.progressPath # ""
              THEN /\ hpc' = "h_prog"
                   /\ hsnap' = [NoSnap EXCEPT !.path = cs.progressPath,
                                              !.progress = ToJson(cs.progress),
                                              !.code = 0, !.at = Phase(pc, call.caller)]
              ELSE IF cs.currentLang # ""
              THEN /\ hpc' = "h_sleep"
                   /\ hsnap' = [NoSnap EXCEPT !.code = 1, !.at = Phase(pc, call.caller)]
              ELSE /\ hpc' = "h_csv"
                   /\ hsnap' = [NoSnap EXCEPT !.csv = CsvOutput(recs),
                                              !.code = 0, !.at = Phase(pc, call.caller)]
    /\ UNCHANGED <<files, loops, call, scpNext, pc, exitCode, meta>>

\* lines 193-228: the handler's write of the progress file is done (or has
\* failed, which saveProgressFile only logs); the rows
\* take the progress of the current language as they are now; the CSV text
\* is built and its write starts
HandlerProgWritten ==
    /\ hpc = "h_prog"
    /\ \/ /\ progFile' = [progFile EXCEPT ![hsnap.path] = hsnap.progress]
          /\ torn' = torn \ {hsnap.path}
       \/ /\ progFile' = progFile
          /\ torn' = torn
       \/ /\ pc \in {"batch_save", "item_save", "scp_prog"}
          /\ hsnap.path = currentState.progressPath
          /\ hsnap.progress # ToJson(currentState.progress)
          /\ progFile' = [progFile EXCEPT ![hsnap.path] = EmptyProgress]
          /\ torn' = torn \cup {hsnap.path}
    /\ LET cs   == currentState
           recs == IF cs.currentLang # ""
                   THEN SyncRecords(cs.records, cs.progress, cs.currentLang)
                   ELSE cs.records
       IN  /\ currentState' = [cs EXCEPT !.records = recs]
           /\ hsnap' = [hsnap EXCEPT !.csv = CsvOutput(recs)]
    /\ hpc' = "h_csv"
    /\ UNCHANGED <<csvFile, loops, call, scpNext, pc, exitCode, meta>>

\* lines 228, 598-600: the handler's write of the CSV file is done; the
\* two-second timer starts
HandlerCsvWritten ==
    /\ hpc = "h_csv"
    /\ csvFile' = hsnap.csv
    /\ hpc' = "h_sleep"
    /\ UNCHANGED <<progFile, torn, currentState, loops, call, scpNext, pc, hsnap,
                   exitCode, meta>>

\* lines 601, 606: the timer fires and the handler exits the process
HandlerExit ==
    /\ hpc = "h_sleep"
    /\ call' = NoCall
    /\ Exit(hsnap.code, Interrupted(hsnap.at))

(***************************************************************************)
(* The process is killed, or the machine stops; the script is run again.   *)
(***************************************************************************)
Crash ==
    /\ Alive
    /\ run < MaxRuns
    /\ pc' = "dead"
    /\ lastEnd' = Interrupted(Phase(pc, call.caller))
    /\ call' = NoCall
    /\ ProcessGone
    /\ ProcessEndsWrites
    /\ UNCHANGED <<exitCode, argv, run, startFiles, codec, retry>>

Restart ==
    /\ ~Alive
    /\ codec.pc = "off"
    /\ run < MaxRuns
    /\ run' = run + 1
    /\ startFiles' = [csv |-> csvFile, prog |-> progFile]
    /\ pc' = "init"
    /\ exitCode' = -1
    /\ call' = NoCall
    /\ ProcessGone
    /\ UNCHANGED <<files, argv, lastEnd, codec, retry>>

Next ==
    \/ ReadConfig
    \/ ReadCsv
    \/ EnsureDir
    \/ LoadProgress
    \/ BatchNext
    \/ HttpOkBatch
    \/ HttpFailRetry
    \/ RetryWaited
    \/ HttpFailBatch
    \/ HttpFailItem
    \/ BatchSaved
    \/ BatchWaited
    \/ ItemNext
    \/ HttpOkItem
    \/ ItemSaved
    \/ ItemWaited
    \/ ScpBegin
    \/ ScpProgWritten
    \/ ScpCsvWritten
    \/ NextLang
    \/ Signal
    \/ HandlerProgWritten
    \/ HandlerCsvWritten
    \/ HandlerExit
    \/ Crash
    \/ Restart

Spec == Init /\ [][Next]_vars

(***************************************************************************)
(* The same runs when nothing stalls: every await of the main sequence     *)
(* resolves (a request is answered or fails, a file operation ends, a      *)
(* timer fires), and so does every await of the handler.  Signals, kills   *)
(* and new runs of the script may come or not.                             *)
(***************************************************************************)
\* the steps of the main sequence
MainStep ==
    \/ ReadConfig
    \/ ReadCsv
    \/ EnsureDir
    \/ LoadProgress
    \/ BatchNext
    \/ HttpOkBatch
    \/ HttpFailRetry
    \/ RetryWaited
    \/ HttpFailBatch
    \/ HttpFailItem
    \/ BatchSaved
    \/ BatchWaited
    \/ ItemNext
    \/ HttpOkItem
    \/ ItemSaved
    \/ ItemWaited
    \/ ScpBegin
    \/ ScpProgWritten
    \/ ScpCsvWritten
    \/ NextLang

\* the steps of gracefulShutdown after its start
HandlerStep ==
    \/ HandlerProgWritten
    \/ HandlerCsvWritten
    \/ HandlerExit

\* the jobs these runs start from: the job translated to every language,
\* with and without its batch pass, and the job run with --batch-size 1
StartsLive ==
    {start \in Starts : start.argv.lang = "" \/ start.argv.batchSize = 1}

InitLive ==
    /\ \E start \in StartsLive :
           /\ argv = start.argv
           /\ csvFile = start.job
    /\ progFile = NoProgressFiles
    /\ torn = {}
    /\ currentState = InitialState
    /\ targetLanguages = <<>>
    /\ langIdx = 0
    /\ rowIdx = 0
    /\ shortTexts = <<>>
    /\ batchStart = 0
    /\ call = NoCall
    /\ scpNext = ""
    /\ pc = "init"
    /\ hpc = "idle"
    /\ hsnap = NoSnap
    /\ exitCode = -1
    /\ run = 1
    /\ startFiles = [csv |-> csvFile, prog |-> progFile]
    /\ lastEnd = NoEnd
    /\ codec = CodecIdle
    /\ retry = RetryIdle

SpecLive ==
    InitLive /\ [][Next]_vars /\ WF_vars(MainStep) /\ WF_vars(HandlerStep)

(***************************************************************************)
(* The codec on its own, and translateText around one answered request:    *)
(* every text over the code units that matter to the two regular           *)
(* expressions, masked and unmasked, or masked, answered and unmasked.     *)
(***************************************************************************)
CodecAlphabet == {"a", "{", "}", "P", "Q", "h", "v"}

\* the code units of the marker character
MarkerUnits == {"P", "Q"}

\* two placeholders with one-unit names, next to each other or apart
TwoPlaceholderTexts ==
    {<<"{", n1, "}">> \o mid \o <<"{", n2, "}">> :
        n1 \in CodecAlphabet \ {"{", "}"}, n2 \in CodecAlphabet \ {"{", "}"},
        mid \in {<<>>, <<"a">>}}

CodecTexts == TextsUpTo(CodecAlphabet, MaxTextLen) \cup TwoPlaceholderTexts

\* a piece of prose the service writes around the markers: nothing, or one
\* character (the separator and the marker character are two code units each)
Prose == {<<>>, <<"a">>, <<"{">>, <<"}">>, <<"h", "v">>, <<"P", "Q">>}

\* the markers of a masked text, in the order of the text
Markers(placeholders) == [i \in 1..Len(placeholders) |-> Marker(placeholders[i])]

Reverse(seq) == [i \in 1..Len(seq) |-> seq[Len(seq) + 1 - i]]

\* prose[1], markers[1], prose[2], ..., markers[k], prose[k + 1]
RECURSIVE Weave(_, _)
Weave(markers, prose) ==
    IF markers = <<>> THEN Head(prose)
    ELSE Head(prose) \o Head(markers) \o Weave(Tail(markers), Tail(prose))

InitCodec ==
    /\ argv = Argv("fr", FALSE, FALSE)
    /\ csvFile = <<>>
    /\ progFile = NoProgressFiles
    /\ torn = {}
    /\ currentState = InitialState
    /\ targetLanguages = <<>>
    /\ langIdx = 0
    /\ rowIdx = 0
    /\ shortTexts = <<>>
    /\ batchStart = 0
    /\ call = NoCall
    /\ scpNext = ""
    /\ pc = "off"
    /\ hpc = "idle"
    /\ hsnap = NoSnap
    /\ exitCode = -1
    /\ run = 1
    /\ startFiles = [csv |-> csvFile, prog |-> progFile]
    /\ lastEnd = NoEnd
    /\ \E text \in CodecTexts : codec = [CodecIdle EXCEPT !.pc = "text", !.text = text]
    /\ retry = RetryIdle

pipeline == <<argv, csvFile, progFile, torn, currentState, targetLanguages, langIdx,
              rowIdx, shortTexts, batchStart, call, scpNext, pc, hpc, hsnap,
              exitCode, run, startFiles, lastEnd>>

\* line 109: maskPlaceholders(text)
CodecMask ==
    /\ codec.pc = "text"
    /\ codec' = [codec EXCEPT !.pc = "masked",
                              !.masked = maskPlaceholders(codec.text).maskedText]
    /\ UNCHANGED <<pipeline, retry>>

\* unmaskPlaceholders applied to the masked text itself
CodecUnmask ==
    /\ codec.pc = "masked"
    /\ codec' = [codec EXCEPT !.pc = "unmasked",
                              !.out = unmaskPlaceholders(codec.masked)]
    /\ UNCHANGED <<pipeline, retry>>

\* lines 100-121: translateText posts the masked text of a non-empty text and
\* the service answers with the markers, in the order of the text or in the
\* reverse order, and prose of its own before, between and after them
CodecRespond ==
    /\ codec.pc = "masked"
    /\ codec.text # <<>>
    /\ LET markers == Markers(maskPlaceholders(codec.text).placeholders)
       IN  \E order \in {markers, Reverse(markers)},
              prose \in [1..(Len(markers) + 1) -> Prose] :
                codec' = [codec EXCEPT !.pc = "responded",
                                       !.resp = Weave(order, prose),
                                       !.prose = Concat(prose)]
    /\ UNCHANGED <<pipeline, retry>>

\* lines 125-128: translateText returns unmaskPlaceholders(response.data.data)
CodecReturn ==
    /\ codec.pc = "responded"
    /\ codec' = [codec EXCEPT !.pc = "returned",
                              !.out = unmaskPlaceholders(codec.resp)]
    /\ UNCHANGED <<pipeline, retry>>

NextCodec ==
    \/ CodecMask
    \/ CodecUnmask
    \/ CodecRespond
    \/ CodecReturn

SpecCodec == InitCodec /\ [][NextCodec]_vars

(***************************************************************************)
(* The waits of translateText: one invocation whose requests fail with a   *)
(* status, or with no response at all, until one succeeds or the           *)
(* invocation gives up.                                                    *)
(***************************************************************************)
\* lines 13-17: the wait per status, in milliseconds
RETRY_DELAYS == (429 :> 5000) @@ (500 :> 10000) @@ (400 :> 3000)

\* line 84: the wait of a status RETRY_DELAYS does not hold
DefaultRetryDelay == 5000

\* line 130: the status of a failure that has no response
DefaultStatus == 500

\* line 88: Math.random() * 1000 is below this
JitterBound == 1000

\* a translateText that waits the same time after every failure
getRetryDelayFlat(status) == DefaultRetryDelay

\* lines 83-85: RETRY_DELAYS[status] || 5000
getRetryDelay(status) ==
    IF status \in DOMAIN RETRY_DELAYS THEN RETRY_DELAYS[status]
                                      ELSE DefaultRetryDelay

\* the failures of a request: a response with a status (the three of
\* RETRY_DELAYS and one more, 503), or no response (error.response undefined)
Failures ==
    {[hasStatus |-> TRUE, status |-> st] : st \in DOMAIN RETRY_DELAYS \cup {503}}
    \cup {[hasStatus |-> FALSE, status |-> 0]}

\* line 130: error.response?.status || 500
StatusOf(error) ==
    IF error.hasStatus /\ error.status # 0 THEN error.status ELSE DefaultStatus

\* the values Math.random() * 1000 takes in the model: the least, one in the
\* middle, the greatest whole number of milliseconds
Jitters == {0, JitterBound \div 2, JitterBound - 1}

InitRetry ==
    /\ argv = Argv("fr", FALSE, FALSE)
    /\ csvFile = <<>>
    /\ progFile = NoProgressFiles
    /\ torn = {}
    /\ currentState = InitialState
    /\ targetLanguages = <<>>
    /\ langIdx = 0
    /\ rowIdx = 0
    /\ shortTexts = <<>>
    /\ batchStart = 0
    /\ call = NoCall
    /\ scpNext = ""
    /\ pc = "off"
    /\ hpc = "idle"
    /\ hsnap = NoSnap
    /\ exitCode = -1
    /\ run = 1
    /\ startFiles = [csv |-> csvFile, prog |-> progFile]
    /\ lastEnd = NoEnd
    /\ codec = CodecIdle
    /\ retry = [RetryIdle EXCEPT !.pc = "post"]

\* lines 129-131, 143-145, 87-89: the request failed and retries are left:
\* the failure is classified, the wait of its status is looked up and
\* wait(delay) sleeps for delay + Math.random() * 1000
RetryFail ==
    /\ retry.pc = "post"
    /\ ~GivesUp(retry.retryCount)
    /\ \E error \in Failures, jitter \in Jitters :
         retry' = [retry EXCEPT !.pc = "wait",
                                !.hasStatus = error.hasStatus,
                                !.status = StatusOf(error),
                                !.delay = getRetryDelay(StatusOf(error)),
                                !.wait = getRetryDelay(StatusOf(error)) + jitter,
                                !.prevStatus = retry.status,
                                !.prevWait = retry.wait]
    /\ UNCHANGED <<pipeline, codec>>

\* lines 146-153: the wait is over, translateText calls itself with
\* retryCount + 1 and posts again
RetryPost ==
    /\ retry.pc = "wait"
    /\ retry' = [retry EXCEPT !.pc = "post", !.retryCount = @ + 1]
    /\ UNCHANGED <<pipeline, codec>>

\* lines 133-139: the request failed and retryCount >= MAX_RETRIES: the error
\* is thrown to the caller
RetryThrow ==
    /\ retry.pc = "post"
    /\ GivesUp(retry.retryCount)
    /\ retry' = [retry EXCEPT !.pc = "thrown"]
    /\ UNCHANGED <<pipeline, codec>>

\* lines 117-128: the request is answered and translateText returns
RetryReturn ==
    /\ retry.pc = "post"
    /\ retry' = [retry EXCEPT !.pc = "returned"]
    /\ UNCHANGED <<pipeline, codec>>

NextRetry ==
    \/ RetryFail
    \/ RetryPost
    \/ RetryThrow
    \/ RetryReturn

SpecRetry == InitRetry /\ [][NextRetry]_vars

(***************************************************************************)
(* Properties.                                                             *)
(***************************************************************************)
\* C1: when every request of one translateText invocation fails, the
\* invocation posts exactly MAX_RETRIES + 1 times and then throws to its
\* caller: it never posts a 12th time, never waits for a retry after the
\* 11th failure, and never throws before the 11th.
C1_RetryCeiling ==
    /\ call.attempts <= MAX_RETRIES + 1
    /\ (pc = "retry_wait" => call.attempts <= MAX_RETRIES)
    /\ (call.outcome = "thrown" => call.attempts = MAX_RETRIES + 1)

\* an invocation of the item pass has thrown after its last attempt
C1_Witness ==
    /\ pc = "item"
    /\ call.outcome = "thrown"
    /\ call.text # <<>>
    /\ call.attempts = MAX_RETRIES + 1

\* C2: while a request is in flight, none of the source texts it carries has
\* an entry in the progress store, whatever the value of the entry.
C2_ProgressReuse ==
    pc = "http" =>
        \A i \in 1..Len(call.texts) :
            Get(currentState.progress, call.texts[i]) = Undefined

\* C3: in a run restarted after an interruption in the item pass of a run
\* without batch pass, no request is in flight for a source text whose
\* translation the interrupted run had flushed to the progress file.
C3_ResumeReusesFlushed ==
    (run > 1 /\ argv.skipBatch /\ lastEnd = "interrupted_in_item_pass" /\ pc = "http") =>
        \A i \in 1..Len(call.texts) :
            call.texts[i] \notin DOMAIN startFiles.prog[lang]

\* the first run left an entry for every non-empty source text in the
\* progress file of every target language
FirstRunTranslatedAll ==
    LET targets == TargetLanguagesOf(argv.lang)
    IN  \A k \in 1..Len(targets), i \in 1..Len(startFiles.csv) :
            Truthy(startFiles.csv[i][BaseLanguage]) =>
                startFiles.csv[i][BaseLanguage] \in DOMAIN startFiles.prog[targets[k]]

\* C4: in a second run on a job the first run completed and translated in
\* full, no step posts a request and no step leaves the progress files or
\* the tabular file different from what the first run produced.
C4_IdempotentRerun ==
    [][(run > 1 /\ lastEnd = "completed" /\ FirstRunTranslatedAll) =>
           /\ pc' # "http"
           /\ progFile' = startFiles.prog
           /\ csvFile' = startFiles.csv]_vars

\* the placeholders maskPlaceholders finds in the text of the codec
CodecPlaceholders == maskPlaceholders(codec.text).placeholders

\* no placeholder name of the text holds a brace
NoBraceInNames ==
    \A i \in 1..Len(CodecPlaceholders) :
        Units(CodecPlaceholders[i]) \cap {"{", "}"} = {}

\* C5 as stated: for every text whose placeholder names hold no brace,
\* unmaskPlaceholders(maskPlaceholders(text).maskedText) equals the text.
C5_RoundTrip ==
    (codec.pc = "unmasked" /\ NoBraceInNames) => codec.out = codec.text

\* C5, amended: for every text that holds no code unit of the marker
\* character and whose placeholder names hold no brace,
\* unmaskPlaceholders(maskPlaceholders(text).maskedText) equals the text.
C5_RoundTripWithoutMarkerUnits ==
    (/\ codec.pc = "unmasked"
     /\ NoBraceInNames
     /\ Units(codec.text) \cap MarkerUnits = {}) => codec.out = codec.text

\* a text with a placeholder whose name has two code units went through
\* the round trip
C5_Witness ==
    /\ codec.pc = "unmasked"
    /\ codec.text = <<"{", "a", "h", "}">>
    /\ codec.masked = PLACEHOLDER_PREFIX \o <<"a">> \o CHAR_SEPARATOR \o <<"h">>
                          \o PLACEHOLDER_SUFFIX
    /\ codec.out = codec.text

\* C6: when the batch pass has collected its texts, each of them has no line
\* break, is no longer than the configured maximum, is the source text of a
\* row whose cell for the language is empty, and has no entry in the
\* progress store.
C6_BatchEligibility ==
    (pc = "batch" /\ batchStart = 1) =>
        \A k \in 1..Len(shortTexts) :
            /\ ~Includes(shortTexts[k], <<"LF">>)
            /\ Len(shortTexts[k]) <= argv.batchMaxTextLength
            /\ \E i \in 1..Len(currentState.records) :
                   /\ currentState.records[i][BaseLanguage] = shortTexts[k]
                   /\ ~Truthy(currentState.records[i][lang])
            /\ shortTexts[k] \notin DOMAIN currentState.progress

\* the case rule of a stored result: given the source text and the raw
\* translation, the value the rule puts in the progress store
CaseRule(text, raw) ==
    IF text[1] = toUpperCase(text[1]) /\ raw # <<>> /\ raw[1] # toUpperCase(raw[1])
    THEN <<toUpperCase(raw[1])>> \o Tail(raw)
    ELSE raw

\* the results a batch has just stored follow the case rule, the raw
\* translation of a text being its trimmed line of the answer
BatchResultsFollowCaseRule ==
    pc = "batch_save" =>
        LET lines == SplitLines(unmaskPlaceholders(call.raw))
        IN  \A j \in 1..Len(call.texts) :
                j <= Len(lines) =>
                    Get(currentState.progress, call.texts[j])
                        = CaseRule(call.texts[j], trim(lines[j]))

\* C7 as stated: every stored result, of the batch pass or of the item
\* pass, follows the case rule.
C7_CasePreserved ==
    /\ BatchResultsFollowCaseRule
    /\ (pc = "item_save" /\ Truthy(call.text)) =>
           Get(currentState.progress, call.text)
               = CaseRule(call.text, unmaskPlaceholders(call.raw))

\* C7, amended: every result stored by the batch pass follows the case rule
\* applied to the trimmed line of the answer; the item pass stores the raw
\* translation unchanged.
C7_CasePreservedInBatches ==
    /\ BatchResultsFollowCaseRule
    /\ (pc = "item_save" /\ Truthy(call.text)) =>
           Get(currentState.progress, call.text) = unmaskPlaceholders(call.raw)

\* a batch has stored the capitalised translation of an upper-case text and
\* the unchanged upper-case translation of a lower-case text
C7_Witness ==
    /\ pc = "batch_save"
    /\ call.texts = << <<"A">>, <<"a">> >>
    /\ SplitLines(call.raw) = << <<"b">>, <<"SP", "B">> >>
    /\ Get(currentState.progress, <<"A">>) = <<"B">>
    /\ Get(currentState.progress, <<"a">>) = <<"B">>

\* C8: with --rebuild, the step that loads the progress of a language leaves
\* every row whose source text has no progress entry with an empty cell, and
\* leaves the populated cell of every row whose source text has an entry as
\* it was.
C8_Rebuild ==
    [][(pc = "load_progress" /\ pc' \in {"batch", "item"} /\ argv.rebuild) =>
           \A i \in 1..Len(currentState.records) :
               LET sourceText == currentState.records[i][BaseLanguage]
               IN  IF sourceText \in DOMAIN progFile[currentState.progressPath]
                   THEN Truthy(currentState.records[i][lang]) =>
                            currentState'.records[i][lang] = currentState.records[i][lang]
                   ELSE ~Truthy(currentState'.records[i][lang])]_vars

\* the service returned the marker of every placeholder intact
MarkersIntact ==
    \A i \in 1..Len(CodecPlaceholders) :
        Includes(codec.resp, Marker(CodecPlaceholders[i]))

\* the returned text holds every placeholder verbatim and no code unit of
\* the marker character
PlaceholdersRestored ==
    /\ \A i \in 1..Len(CodecPlaceholders) :
           Includes(codec.out, <<"{">> \o CodecPlaceholders[i] \o <<"}">>)
    /\ Units(codec.out) \cap MarkerUnits = {}

\* C9 as stated: whenever the service returns every marker intact, the text
\* translateText returns holds every placeholder verbatim and no marker
\* character.
C9_PlaceholdersSurvive ==
    (codec.pc = "returned" /\ MarkersIntact) => PlaceholdersRestored

\* C9, amended: whenever neither the text nor the prose of the service holds
\* a marker character and the service returns every marker intact, the text
\* translateText returns holds every placeholder verbatim and no marker
\* character.
C9_PlaceholdersSurviveWithoutMarkerUnits ==
    (/\ codec.pc = "returned"
     /\ MarkersIntact
     /\ Units(codec.text) \cap MarkerUnits = {}
     /\ Units(codec.prose) \cap MarkerUnits = {}) => PlaceholdersRestored

\* the service swapped two placeholders and put prose around them
C9_Witness ==
    /\ codec.pc = "returned"
    /\ codec.text = <<"{", "a", "}", "a", "{", "h", "}">>
    /\ codec.resp = <<"a">> \o Marker(<<"h">>) \o <<"a">> \o Marker(<<"a">>)
    /\ codec.out = <<"a", "{", "h", "}", "a", "{", "a", "}">>

\* C10: a step of the item pass at a row with an empty cell whose source
\* text has a progress entry posts no request and, moving on, leaves the
\* entry's value in the cell; a successful request leaves the same
\* translation in the cell and in the progress store, and the progress file
\* holds the store when the pause before the next row starts.
C10_ItemPass ==
    [][/\ (/\ pc = "item"
           /\ rowIdx <= Len(currentState.records)
           /\ ~Truthy(currentState.records[rowIdx][lang])
           /\ Get(currentState.progress,
                  currentState.records[rowIdx][BaseLanguage]) # Undefined) =>
              /\ pc' # "http"
              /\ (pc' = "item" /\ rowIdx' = rowIdx + 1) =>
                     currentState'.records[rowIdx][lang]
                         = Get(currentState.progress,
                               currentState.records[rowIdx][BaseLanguage])
       /\ (pc = "http" /\ pc' = "item_save") =>
              currentState'.records[rowIdx][lang]
                  = Get(currentState'.progress,
                        currentState.records[rowIdx][BaseLanguage])
       /\ (pc = "item_save" /\ pc' = "item_wait") =>
              progFile'[currentState.progressPath] = ToJson(currentState.progress)
      ]_vars

\* C11: whenever the answer to a batch request splits into a number of lines
\* different from the number of texts of the batch, the step that receives
\* it ends the process with status 1 and leaves the progress file as it was.
C11_BatchIntegrity ==
    [][(/\ pc = "http"
        /\ call.caller = "batch"
        /\ call'.outcome = "returned"
        /\ Len(SplitLines(unmaskPlaceholders(call'.raw))) # Len(call.texts)) =>
           /\ pc' = "exited"
           /\ exitCode' = 1
           /\ progFile' = progFile]_vars

\* C12: whenever the main sequence ends the process with status 1 while a
\* request is its last await (a batch answer that makes translateBatch
\* throw, a batch request that failed for the last time), the files hold
\* what a save at that moment writes: the progress store in the progress
\* file, and the rows with the progress of the current language in the
\* tabular file.
C12_FlushBeforeFatalExit ==
    [][(pc = "http" /\ pc' = "exited" /\ exitCode' = 1 /\ lastEnd' = "fatal") =>
           /\ progFile'[currentState.progressPath] = ToJson(currentState.progress)
           /\ csvFile' = CsvOutput(SyncRecords(currentState.records,
                                               currentState.progress,
                                               currentState.currentLang))]_vars

\* C13: a step of the batch pass or of the item pass that ends the save of
\* the progress file without the file holding the progress store (the write
\* failed) ends the process with status 1: the main sequence does not go on
\* to the pause and the next request.
C13_WriteFailureIsFatal ==
    [][(/\ pc \in {"batch_save", "item_save"}
        /\ pc' \notin {pc, "dead"}
        /\ hpc' = hpc
        /\ progFile'[currentState.progressPath] # ToJson(currentState.progress)) =>
           /\ pc' = "exited"
           /\ exitCode' = 1]_vars

\* C14: a handler of SIGINT or SIGTERM that starts when rows are loaded goes
\* on to write the files (it does not fail before its first write), and
\* whenever the handler ends the process the status is 0.
C14_CleanInterruption ==
    [][/\ (hpc = "idle" /\ hpc' # "idle" /\ HasStateToSave(currentState)) =>
              hpc' \in {"h_prog", "h_csv"}
       /\ (hpc = "h_sleep" /\ pc' = "exited") => exitCode' = 0]_vars

C16_BaseColumnKept ==
    /\ \A i \in 1..Len(currentState.records) :
           currentState.records[i][BaseLanguage] = startFiles.csv[i][BaseLanguage]
    /\ \A i \in 1..Len(csvFile) :
           csvFile[i][BaseLanguage] = startFiles.csv[i][BaseLanguage]

\* C18: every request in flight is posted to the path the --pro flag of the
\* command line selects.
C18_EndpointByFlag ==
    pc = "http" => Endpoint(call.pro) = Endpoint(argv.pro)

\* C20: the step in which translateText throws to the item pass leaves the
\* cell of the row unset, leaves the progress store and the progress file
\* as they were, and takes the item pass to the next row.
C20_ItemFailureIsolated ==
    [][(pc = "http" /\ call.caller = "item" /\ call'.outcome = "thrown") =>
           /\ pc' = "item"
           /\ rowIdx' = rowIdx + 1
           /\ currentState'.records = currentState.records
           /\ ~Truthy(currentState'.records[rowIdx][lang])
           /\ currentState'.progress = currentState.progress
           /\ progFile' = progFile]_vars

\* the request of the second row is in flight after the first row failed
\* for the last time: its cell is unset and its text has no progress entry
C20_Witness ==
    /\ pc = "http"
    /\ call.caller = "item"
    /\ rowIdx = 2
    /\ Truthy(currentState.records[1][BaseLanguage])
    /\ currentState.records[1][BaseLanguage] # currentState.records[2][BaseLanguage]
    /\ ~Truthy(currentState.records[1][lang])
    /\ Get(currentState.progress, currentState.records[1][BaseLanguage]) = Undefined

\* the wait translateText is in is the one after a failure of class st
\* and the wait before it was the one after a failure of class prev
WaitAfter(st, prev) ==
    /\ retry.pc = "wait"
    /\ retry.retryCount >= 1
    /\ retry.status = st
    /\ retry.prevStatus = prev

\* C17, as stated: a wait after a 429 is longer than the wait after any
\* other class before it, a wait after a 400 is shorter than the wait after
\* a 500 before it, a status outside the table waits as a 429 does, and a
\* failure without a response is classified 500.
C17_RetryWaitByClass ==
    /\ \A prev \in {400, 500} : WaitAfter(429, prev) => retry.wait > retry.prevWait
    /\ WaitAfter(400, 500) => retry.wait < retry.prevWait
    /\ (retry.pc = "wait" /\ retry.status \notin DOMAIN RETRY_DELAYS) =>
           retry.delay = getRetryDelay(429)
    /\ (retry.pc = "wait" /\ ~retry.hasStatus) => retry.status = 500

\* C17, amended: the wait after a 500 is the longest, the wait after a 400 the
\* shortest and the wait after a 429 in between, whatever the jitter; a
\* status outside the table waits as a 429 does; a failure without a
\* response is classified 500; every wait is the wait of its class plus a
\* jitter below JitterBound.
C17_RetryWaitByClassAmended ==
    /\ \A prev \in {429, 400} : WaitAfter(500, prev) => retry.wait > retry.prevWait
    /\ WaitAfter(429, 400) => retry.wait > retry.prevWait
    /\ WaitAfter(429, 500) => retry.wait < retry.prevWait
    /\ \A prev \in {429, 500} : WaitAfter(400, prev) => retry.wait < retry.prevWait
    /\ (retry.pc = "wait" /\ retry.status \notin DOMAIN RETRY_DELAYS) =>
           retry.delay = getRetryDelay(429)
    /\ (retry.pc = "wait" /\ ~retry.hasStatus) =>
           /\ retry.status = 500
           /\ retry.delay = getRetryDelay(500)
    /\ retry.pc = "wait" =>
           /\ retry.delay = getRetryDelay(retry.status)
           /\ retry.wait >= retry.delay
           /\ retry.wait < retry.delay + JitterBound

\* a wait after a 500 with the least jitter follows a wait after a 429 with
\* the greatest
C17_Witness ==
    /\ WaitAfter(500, 429)
    /\ retry.wait = 10000
    /\ retry.prevWait = 5999

\* C19: within one invocation the wait before a retry is longer than the wait
\* before the retry before it, and there are at most MAX_RETRIES retries.
C19_IncreasingDelays ==
    /\ retry.retryCount <= MAX_RETRIES
    /\ (retry.pc = "wait" /\ retry.retryCount >= 1) => retry.wait > retry.prevWait

\* the loop of processBatchTranslations has no chunk left (or never had one)
BatchPassOver(texts, start) == texts = <<>> \/ start > Len(texts)

\* C21: the phases of a language follow each other in the order load, batch
\* pass (or none), item pass, flush: the batch pass is entered from the load
\* only; the item pass is entered from the load when there is no batch pass,
\* and else from the saveCurrentProgress that ends the batch pass; a request
\* of the item pass is posted only when no chunk is left and the progress of
\* the language is loaded; the language is left only after every row was
\* visited and saveCurrentProgress has written the tabular file; and the
\* next language becomes current only then.
C21_PhaseOrder ==
    [][/\ (Phase(pc', call'.caller) = "batch_pass" /\ Phase(pc, call.caller) # "batch_pass") =>
              pc = "load_progress"
       /\ (Phase(pc', call'.caller) = "item_pass" /\ Phase(pc, call.caller) # "item_pass") =>
              /\ \/ pc = "load_progress"
                 \/ pc = "scp_csv" /\ scpNext = "item"
              /\ BatchPassOver(shortTexts', batchStart')
       /\ (pc' = "http" /\ call'.caller = "item") =>
              /\ BatchPassOver(shortTexts', batchStart')
              /\ currentState'.hasProgress
              /\ currentState'.progressPath = targetLanguages'[langIdx']
              /\ currentState'.currentLang = targetLanguages'[langIdx']
       /\ (pc' = "next_lang" /\ pc # "next_lang") =>
              /\ pc = "scp_csv" /\ scpNext = "next_lang"
              /\ rowIdx > Len(currentState.records)
              /\ csvFile' = CsvOutput(currentState.records)
       /\ (langIdx' # langIdx /\ pc' \notin {"exited", "dead", "init"}) =>
              \/ pc = "csv_read" /\ langIdx = 0
              \/ pc = "next_lang" /\ langIdx' = langIdx + 1 /\ pc' = "ensure_dir"]_vars

\* the chunk of the batch pass of the second language is in flight, and the
\* tabular file holds what the first language's passes translated
C21_Witness ==
    /\ pc = "http"
    /\ call.caller = "batch"
    /\ langIdx = 2
    /\ run = 1
    /\ \E i \in 1..Len(csvFile) :
           /\ startFiles.csv[i][targetLanguages[1]] = <<>>
           /\ Truthy(csvFile[i][targetLanguages[1]])
           /\ csvFile[i][targetLanguages[2]] = <<>>

\* C22: at most one request is outstanding in every state, the handler
\* running or not; a request is posted only by the main sequence, from the
\* head of the batch loop, the head of the item loop or the end of a retry
\* wait, when no request is outstanding; and no step of the handler posts one.
C22_SingleInFlight ==
    [][/\ Cardinality(Outstanding) <= 1
       /\ Cardinality(Outstanding') <= 1
       /\ (Outstanding' # {} /\ Outstanding' # Outstanding) =>
              /\ Outstanding = {}
              /\ pc \in {"batch", "item", "retry_wait"}
              /\ hpc' = hpc
       /\ (hpc' # hpc /\ pc' = pc) => Outstanding' = Outstanding]_vars

\* the handler is writing while the second request of an invocation of the
\* main sequence is outstanding
C22_Witness ==
    /\ hpc \in {"h_prog", "h_csv"}
    /\ Outstanding = {<<"batch", 2>>}

\* C23: a step of the handler that is not the exit of the process leaves
\* the run state as it was, and the handler started with a current language
\* finds the progress populated, so that it ends without an error.
C23_HandlerReadOnly ==
    [][/\ (hpc' # hpc /\ pc' = pc) => currentState' = currentState
       /\ (hpc = "idle" /\ hpc' # "idle") => hsnap'.code = 0]_vars

\* the chunk before the one that starts at batchStart
PreviousBatch == Slice(shortTexts, batchStart - argv.batchSize, argv.batchSize)

\* C25: when the request of a chunk that is not the first is posted, every
\* text of the chunk before it has an entry in the progress store and the
\* progress file of the language holds the progress store.
C25_BatchCommitted ==
    [][(pc = "batch" /\ pc' = "http" /\ batchStart > 1) =>
           /\ \A i \in 1..Len(PreviousBatch) :
                  Get(currentState.progress, PreviousBatch[i]) # Undefined
           /\ progFile[currentState.progressPath] = ToJson(currentState.progress)]_vars

\* the rows that have the given source text and no translation to language l
RowsToTranslate(recs, l, text) ==
    {i \in 1..Len(recs) : recs[i][BaseLanguage] = text /\ ~Truthy(recs[i][l])}

\* the first of them
FirstRow(recs, l, text) ==
    CHOOSE i \in RowsToTranslate(recs, l, text) :
        \A j \in RowsToTranslate(recs, l, text) : i <= j

C27_NoPartialBatch ==
    [][(pc = "http" /\ call.caller = "batch" /\ call'.outcome = "thrown") =>
           /\ \A i \in 1..Len(call.texts) :
                  /\ ~Truthy(Get(currentState.progress, call.texts[i]))
                  /\ \A l \in DOMAIN progFile :
                         call.texts[i] \in DOMAIN progFile'[l] =>
                             /\ call.texts[i] \in DOMAIN progFile[l]
                             /\ progFile'[l][call.texts[i]] = progFile[l][call.texts[i]]
           /\ pc' = "exited"
           /\ exitCode' = 1]_vars

\* the process has exited after the request of a chunk of two texts failed
\* for the last time, and the progress file of the language has no entry
C27_Witness ==
    /\ pc = "exited"
    /\ exitCode = 1
    /\ call.caller = "batch"
    /\ call.outcome = "thrown"
    /\ call.retryCount = MAX_RETRIES
    /\ Len(call.texts) = 2
    /\ progFile[argv.lang] = EmptyProgress

\* C24: no progress file is ever half-written: not when loadProgressFile
\* reads it, not after the process was killed or has exited, and not while
\* the handler and the main sequence write.
C24_AtomicSave == torn = {}

\* C29: the step that loads the progress file of a language leaves the empty
\* mapping in the run state when the file has no entry or is half-written,
\* and the run goes on with the batch pass or the item pass of the language.
C29_LoadNeverFails ==
    [][(pc = "load_progress" /\ pc' \notin {"load_progress", "dead"} /\ hpc' = hpc) =>
           /\ pc' \in {"batch", "item"}
           /\ currentState'.hasProgress
           /\ (\/ currentState.progressPath \in torn
               \/ progFile[currentState.progressPath] = EmptyProgress) =>
                  currentState'.progress = EmptyProgress
           /\ currentState.progressPath \notin torn =>
                  currentState'.progress = progFile[currentState.progressPath]]_vars

\* the second run has loaded the progress file the first run left
\* half-written, and its first request is in flight
C29_Witness ==
    /\ run = 2
    /\ pc = "http"
    /\ call.attempts = 1
    /\ currentState.progressPath \in torn
    /\ currentState.progress = EmptyProgress

\* C28: no request is ever posted, or waited to be posted again, for the
\* empty text; and the step of the item pass that calls translateText with
\* the empty text posts nothing: the invocation has returned with no attempt
\* made, and the row and the progress store hold the empty text it returned.
C28_EmptyShortCircuit ==
    [][/\ pc' \in {"http", "retry_wait"} => call'.text # <<>>
       /\ (pc = "item" /\ call' # call /\ call'.caller = "item" /\ call'.text = <<>>) =>
              /\ pc' = "item_save"
              /\ call'.attempts = 0
              /\ call'.outcome = "returned"
              /\ currentState'.records[rowIdx][lang] = <<>>
              /\ Get(currentState'.progress, <<>>) = <<>>]_vars

\* translateText has returned the empty text of the second row with no
\* request made, after a request for the first row
C28_Witness ==
    /\ pc = "item_save"
    /\ rowIdx = 2
    /\ call.text = <<>>
    /\ call.attempts = 0
    /\ call.outcome = "returned"
    /\ currentState.records[2][BaseLanguage] = <<>>
    /\ currentState.records[2][lang] = <<>>
    /\ Truthy(currentState.records[1][lang])

\* C30: wherever the handler can start with a current language and a
\* progress store, the progress path is the path of the current language and
\* the progress store is the one loaded for it (the load of the current
\* language is not still to come).
C30_LanguageConsistency ==
    (/\ Alive
     /\ pc \in AwaitPoints
     /\ currentState.currentLang # ""
     /\ currentState.hasProgress) =>
        /\ currentState.progressPath = currentState.currentLang
        /\ pc \notin {"ensure_dir", "load_progress"}

\* C31: without --rebuild, a cell of a language column that was filled in
\* the tabular file when the run started holds the same value in the rows
\* in memory, once they are read, and in the tabular file.
C31_ExistingKept ==
    ~argv.rebuild =>
        \A i \in 1..Len(startFiles.csv) :
            \A l \in Units(FilterNotBase(ConfigLanguages)) :
                Truthy(startFiles.csv[i][l]) =>
                    /\ csvFile[i][l] = startFiles.csv[i][l]
                    /\ currentState.records # <<>> =>
                           currentState.records[i][l] = startFiles.csv[i][l]

\* C32: a step of a run that stays with the progress store of one language
\* (it is not the load of the store, and the process does not end) keeps
\* every entry of the store and the value of every entry.
C32_ProgressMonotonic ==
    [][(/\ currentState.hasProgress
        /\ pc \notin {"load_progress", "exited", "dead"}
        /\ pc' \notin {"exited", "dead", "init"}) =>
           \A t \in DOMAIN currentState.progress :
               /\ t \in DOMAIN currentState'.progress
               /\ currentState'.progress[t] = currentState.progress[t]]_vars

\* C33: the step that stores the results of a chunk leaves for every text
\* of the chunk an entry in the progress store whose value is defined and
\* not empty, and is the line of the answer at the position of the text
\* (trimmed and case-adjusted as translateBatch does).
C33_BatchEntriesWellFormed ==
    [][(pc = "http" /\ call.caller = "batch" /\ pc' = "batch_save") =>
           LET lines == SplitLines(unmaskPlaceholders(call'.raw))
           IN  \A i \in 1..Len(call.texts) :
                   /\ i <= Len(lines)
                   /\ Get(currentState'.progress, call.texts[i]) # Undefined
                   /\ Get(currentState'.progress, call.texts[i]) # <<>>
                   /\ Get(currentState'.progress, call.texts[i]) =
                          AdjustCase(call.texts[i], lines[i])]_vars

\* C34: when no await stalls, every run ends: the process is in the end
\* gone for good, whatever the service answers and whichever requests fail.
\* On the way the loops only go forward: a step of the main sequence back to
\* the head of the item loop is a step to the next row, a step back to the
\* head of the batch loop is a step to the next chunk (batchSize >= 1), the
\* languages are taken one after the other, and no invocation of
\* translateText posts more than MAX_RETRIES + 1 times.
C34_Termination ==
    /\ <>[](~Alive)
    /\ [](call.attempts <= MAX_RETRIES + 1)
    /\ [][/\ (pc' = "item" /\ pc \in {"item", "item_wait", "http"} /\ hpc' = hpc) =>
                 rowIdx' = rowIdx + 1
          /\ (pc' = "batch" /\ pc = "batch_wait" /\ hpc' = hpc) =>
                 /\ argv.batchSize >= 1
                 /\ batchStart' = batchStart + argv.batchSize
          /\ (langIdx' # langIdx /\ pc' \notin {"exited", "dead", "init"}) =>
                 langIdx' = langIdx + 1]_vars

\* a run has ended by itself after requests that failed and were retried,
\* and after one that failed for the last time
C34_Witness ==
    /\ pc = "done"
    /\ hpc = "idle"
    /\ exitCode = 0
    /\ call.outcome = "thrown"
    /\ call.attempts = MAX_RETRIES + 1

=============================================================================
